---- MODULE Spec2Model ----
(***************************************************************************)
(* Model of pybundle's repository roadmap: build_roadmap (roadmap_scan),   *)
(* the roadmap step and its bounded Mermaid renderer (steps/roadmap.py),   *)
(* the import resolution of steps/context_expand.py and the profile        *)
(* runner (runner.py).                                                     *)
(*                                                                         *)
(* Text is modelled as a sequence of tokens: a token is either one of the  *)
(* separator characters "/", ".", ":" or an atom, a run of other           *)
(* characters.  Two strings are equal exactly when their token sequences   *)
(* are equal, concatenation is \o, and str.split / str.startswith work on  *)
(* the separator tokens.  A name that ends with another name is written as *)
(* two atoms in a row ("a__main__" is "a", "__main__"), so that            *)
(* str.endswith sees the shorter name at its end.                          *)
(***************************************************************************)
EXTENDS Integers, Sequences, FiniteSets, TLC

VARIABLES
    root_exists,   \* whether the scan root is an existing directory
    fs,            \* the file tree under the scan root: file path -> [size, content, readable]
    include_dirs,  \* build_roadmap argument: sequence of include-root paths
    exclude_dirs,  \* build_roadmap argument: set of excluded directory names
    max_files,     \* build_roadmap argument: file-count ceiling
    walk,          \* the walk made by the latest scan: files, skipped_big
    graph,         \* RoadmapGraph returned by the latest scan
    out_json,      \* serialized graph written by the latest scan
    prev_json,     \* serialized graph written by the scan before it
    outcome,       \* how the latest build_roadmap call ended: "none", "returned", "raised"
    step_status,   \* RoadmapStep.run: "none", the StepResult's status, or "raised"
    written,       \* RoadmapStep.run: the names of the artifacts it wrote
    include,       \* RoadmapStep.include: None, or the configured list of include paths
    r_graph,       \* renderer argument: graph (edges, entrypoints)
    r_max_depth,   \* renderer argument
    r_max_edges,   \* renderer argument
    adj,           \* renderer local: adjacency, src -> list of dst
    q,             \* renderer local: deque of <<node, depth>>
    seen_edges,    \* renderer local
    seen_nodes,    \* renderer local
    shown,         \* renderer local: emitted edge lines, as <<src, dst>>
    cur,           \* renderer local: <<node, depth>> popped last
    todo,          \* renderer local: rest of adj[node] in the for loop
    expanded,      \* history: <<node, depth>> of every popped node that entered the for loop
    enqueued,      \* history: the nodes put on the queue, in order
    result,        \* renderer: the returned list of lines
    pc,            \* renderer position
    call,          \* a call of one of the helper functions: its name and arguments
    ret,           \* what that call returned
    strict,        \* run_profile: ctx.strict
    steps,         \* run_profile: profile.steps, by name
    results,       \* run_profile: ctx.results, the StepResults appended so far
    any_fail,      \* run_profile local
    archive,       \* run_profile: whether make_archive has produced the archive
    rc,            \* run_profile: <<return code>> once it has returned
    run_pc         \* run_profile position: "idle", "start", "for", "after", "returned"

scanVars == <<root_exists, fs, include_dirs, exclude_dirs, max_files, walk, graph, out_json, prev_json,
              outcome, step_status, written, include>>
renderVars == <<r_graph, r_max_depth, r_max_edges, adj, q, seen_edges, seen_nodes, shown, cur, todo, expanded,
               enqueued, result, pc>>
callVars == <<call, ret>>
runVars == <<strict, steps, results, any_fail, archive, rc, run_pc>>
vars == <<scanVars, renderVars, callVars, runVars>>

----------------------------------------------------------------------------
(* Bounds *)

MaxTreeFiles == 2      \* files present in a scanned tree
MaxREdges == 3         \* edges of a graph handed to the renderer
MaxRDepth == 2         \* largest max_depth handed to the renderer
MaxRCap == 3           \* largest max_edges handed to the renderer
MaxEpNodes == 3        \* nodes of a dict handed to detect_entrypoints_from_nodes
MaxSteps == 3          \* steps of a profile handed to run_profile

----------------------------------------------------------------------------
(* Strings *)

Seps == {"/", ".", ":"}

\* Atoms in ascending order of their characters' code points; every
\* separator sorts before every atom character.
AtomOrder == <<"Python", "__init__", "__main__", "a", "activate", "b", "bin", "build",
               "c", "cfg", "cli", "env", "import", "js", "json", "m", "main", "mod",
               "package", "pkg", "py", "pybundle", "pyproject", "python", "pyvenv",
               "rs", "rsmod", "src", "std", "tests", "toml", "ts", "u", "use">>

AtomRank == [t \in {AtomOrder[i] : i \in 1..Len(AtomOrder)} |->
                 CHOOSE i \in 1..Len(AtomOrder) : AtomOrder[i] = t]

TokRank(t) ==
    IF t = "." THEN 1
    ELSE IF t = "/" THEN 2
    ELSE IF t = ":" THEN 3
    ELSE 3 + AtomRank[t]

RECURSIVE StrLess(_, _)
StrLess(s, t) ==
    IF t = <<>> THEN FALSE
    ELSE IF s = <<>> THEN TRUE
    ELSE IF Head(s) = Head(t) THEN StrLess(Tail(s), Tail(t))
    ELSE TokRank(Head(s)) < TokRank(Head(t))

\* tuple comparison: lexicographic over a sequence of strings
RECURSIVE TupleLess(_, _)
TupleLess(a, b) ==
    IF a = <<>> \/ b = <<>> THEN FALSE
    ELSE IF Head(a) = Head(b) THEN TupleLess(Tail(a), Tail(b))
    ELSE StrLess(Head(a), Head(b))

RECURSIVE Join(_, _)
Join(parts, sep) ==
    IF parts = <<>> THEN <<>>
    ELSE IF Len(parts) = 1 THEN parts[1]
    ELSE parts[1] \o <<sep>> \o Join(Tail(parts), sep)

\* str.split(sep)
RECURSIVE SplitAcc(_, _, _)
SplitAcc(s, sep, acc) ==
    IF s = <<>> THEN <<acc>>
    ELSE IF Head(s) = sep THEN <<acc>> \o SplitAcc(Tail(s), sep, <<>>)
    ELSE SplitAcc(Tail(s), sep, Append(acc, Head(s)))

Split(s, sep) == SplitAcc(s, sep, <<>>)

StartsWith(s, p) == Len(s) >= Len(p) /\ SubSeq(s, 1, Len(p)) = p

EndsWith(s, p) == Len(s) >= Len(p) /\ SubSeq(s, Len(s) - Len(p) + 1, Len(s)) = p

Contains(s, p) == \E i \in 1..(Len(s) - Len(p) + 1) : SubSeq(s, i, i + Len(p) - 1) = p

----------------------------------------------------------------------------
(* Paths and the file tree *)

\* A path is the sequence of its components below the scan root; a
\* component (file or directory name) is a string without "/".
Root == <<>>

\* _rel: the repo-relative path string of p, components joined by "/"
_rel(p) == Join(p, "/")

IsFile(f, p) == p \in DOMAIN f

IsPrefix(d, p) == Len(d) <= Len(p) /\ SubSeq(p, 1, Len(d)) = d

\* a directory exists when it is the (existing) root or holds a file
\* somewhere below
IsDir(f, p) == (p = Root /\ root_exists) \/ \E x \in DOMAIN f : Len(x) > Len(p) /\ IsPrefix(p, x)

Exists(f, p) == IsFile(f, p) \/ IsDir(f, p)

\* names of the child directories / child files of directory d
ChildDirs(f, d) == {x[Len(d) + 1] : x \in {y \in DOMAIN f : Len(y) > Len(d) + 1 /\ IsPrefix(d, y)}}

ChildFiles(f, d) == {x[Len(d) + 1] : x \in {y \in DOMAIN f : Len(y) = Len(d) + 1 /\ IsPrefix(d, y)}}

PYVENV_CFG == <<"pyvenv", ".", "cfg">>
DOT_PYTHON == <<".", "Python">>
PYTHON_EXE == <<"python", ".", "exe">>
PYBUNDLE_VENV == <<".", "pybundle-venv">>
SITE_PACKAGES == <<"site-packages">>

\* mutant of _is_venv_root: the pyvenv.cfg marker is not looked at
_is_venv_root_no_cfg(f, p) ==
    /\ IsDir(f, p)
    /\ \/ /\ IsDir(f, p \o <<<<"bin">>>>)
          /\ Exists(f, p \o <<<<"bin">>, <<"python">>>>) \/ Exists(f, p \o <<<<"bin">>, <<"python3">>>>)
          /\ IsFile(f, p \o <<<<"bin">>, <<"activate">>>>)
       \/ Exists(f, p \o <<DOT_PYTHON>>)

_is_venv_root(f, p) ==
    /\ IsDir(f, p)
    /\ \/ IsFile(f, p \o <<PYVENV_CFG>>)
       \/ /\ IsDir(f, p \o <<<<"bin">>>>)
          /\ Exists(f, p \o <<<<"bin">>, <<"python">>>>) \/ Exists(f, p \o <<<<"bin">>, <<"python3">>>>)
          /\ \/ IsFile(f, p \o <<<<"bin">>, <<"activate">>>>)
             \/ \E n \in ChildDirs(f, p \o <<<<"lib">>>>) :
                    /\ Head(n) \in {"python", "python3"}
                    /\ Exists(f, p \o <<<<"lib">>, n, SITE_PACKAGES>>)
       \/ /\ IsDir(f, p \o <<<<"Scripts">>>>)
          /\ IsFile(f, p \o <<<<"Scripts">>, PYTHON_EXE>>) \/ Exists(f, p \o <<<<"Scripts">>, <<"python">>>>)
          /\ \/ IsFile(f, p \o <<<<"Scripts">>, <<"activate">>>>)
             \/ IsDir(f, p \o <<<<"Lib">>, SITE_PACKAGES>>)
       \/ Exists(f, p \o <<DOT_PYTHON>>)

\* walks the ancestors of rel_path, the path itself included
_is_under_venv(f, rel_path) ==
    \E i \in 1..Len(rel_path) : _is_venv_root(f, SubSeq(rel_path, 1, i))

----------------------------------------------------------------------------
(* Languages *)

\* str.lower on one token
Lower(t) ==
    IF t = "PY" THEN "py"
    ELSE IF t = "RS" THEN "rs"
    ELSE IF t = "JS" THEN "js"
    ELSE IF t = "TS" THEN "ts"
    ELSE t

LowerStr(s) == [i \in 1..Len(s) |-> Lower(s[i])]

\* pathlib's PurePath.suffix of a file name: from its last ".", unless that
\* "." is the first or the last character
Suffix(name) ==
    LET dots == {i \in 1..Len(name) : name[i] = "."}
    IN  IF dots = {} THEN <<>>
        ELSE LET i == CHOOSE j \in dots : \A k \in dots : k <= j
             IN  IF 1 < i /\ i < Len(name) THEN SubSeq(name, i, Len(name)) ELSE <<>>

Ext(x) == <<".", x>>

PY_EXT == {Ext("py")}
JS_EXT == {Ext("js"), Ext("jsx"), Ext("mjs"), Ext("cjs")}
TS_EXT == {Ext("ts"), Ext("tsx")}
RUST_EXT == {Ext("rs")}

guess_lang(p) ==
    LET suf == LowerStr(Suffix(p[Len(p)]))
    IN  IF suf \in PY_EXT THEN "python"
        ELSE IF suf \in TS_EXT THEN "ts"
        ELSE IF suf \in JS_EXT THEN "js"
        ELSE IF suf \in RUST_EXT THEN "rust"
        ELSE IF suf \in {Ext("html"), Ext("jinja"), Ext("j2")} THEN "html"
        ELSE IF suf \in {Ext("css"), Ext("scss"), Ext("sass")} THEN "css"
        ELSE IF suf \in {Ext("toml"), Ext("yaml"), Ext("yml"), Ext("json"), Ext("ini"), Ext("cfg")} THEN "config"
        ELSE "unknown"

----------------------------------------------------------------------------
(* Reference extraction.  A file's text is a sequence of statements:        *)
(*   [k |-> "import", names |-> <<dotted, ...>>]      import a.b, c         *)
(*   [k |-> "from", level |-> n, module |-> dotted]   from ..a.b import x   *)
(*        (module = <<>> for "from . import x")                             *)
(*   [k |-> "syntax_error"]                           text ast.parse rejects *)
(*   [k |-> "os_error"]                               read_text raised      *)
(*   [k |-> "jsimport", spec |-> s]                   import x from "s"     *)
(*   [k |-> "require", spec |-> s]                    require("s")          *)
(*   [k |-> "use", path |-> s]                        use s                 *)
(*   [k |-> "mod", name |-> s]                        mod s;                *)

RECURSIVE PyMods(_)
PyMods(stmts) ==
    IF stmts = <<>> THEN <<>>
    ELSE LET n == Head(stmts)
         IN  (IF n.k = "import" THEN n.names
              ELSE IF n.k = "from" /\ n.module # <<>> THEN <<n.module>>
              ELSE <<>>) \o PyMods(Tail(stmts))

\* what reading file p hands to its reader: the text, or the OSError raised
OS_ERROR == <<[k |-> "os_error"]>>

read_text(f, p) == IF f[p].readable THEN f[p].content ELSE OS_ERROR

\* the try block covers read_text and ast.parse
scan_python_imports(text) ==
    IF \E i \in 1..Len(text) : text[i].k \in {"syntax_error", "os_error"} THEN <<>>
    ELSE PyMods(text)

IsJsImport(n) == n.k = "jsimport"
IsRequire(n) == n.k = "require"
IsUse(n) == n.k = "use"
IsMod(n) == n.k = "mod"

scan_js_imports(text) ==
    LET imps == SelectSeq(text, IsJsImport)
        reqs == SelectSeq(text, IsRequire)
    IN  [i \in 1..Len(imps) |-> imps[i].spec] \o [i \in 1..Len(reqs) |-> reqs[i].spec]

scan_rust_uses(text) ==
    LET us == SelectSeq(text, IsUse)
        ms == SelectSeq(text, IsMod)
    IN  [uses |-> [i \in 1..Len(us) |-> us[i].path], mods |-> [i \in 1..Len(ms) |-> ms[i].name]]

----------------------------------------------------------------------------
(* Python module resolution *)

None == <<>>

NonEmpty(x) == x # <<>>

\* Path(*parts): empty components vanish
PathOf(parts) == SelectSeq(parts, NonEmpty)

\* Path.parent of a relative path: the parent of "." is "."
Parent(p) == IF p = <<>> THEN <<>> ELSE SubSeq(p, 1, Len(p) - 1)

RECURSIVE Ascend(_, _)
Ascend(p, n) == IF n <= 0 THEN p ELSE Ascend(Parent(p), n - 1)

RECURSIVE LeadingDots(_)
LeadingDots(s) == IF s # <<>> /\ Head(s) = "." THEN 1 + LeadingDots(Tail(s)) ELSE 0

\* Path.with_suffix on the last component
WithSuffix(p, suffix) ==
    LET name == p[Len(p)]
        stem == SubSeq(name, 1, Len(name) - Len(Suffix(name)))
    IN  [p EXCEPT ![Len(p)] = stem \o suffix]

INIT_PY == <<"__init__", ".", "py">>

_resolve_py_to_node(f, src_rel, mod) ==
    LET cand ==
            IF StartsWith(mod, <<".">>)
            THEN LET dots == LeadingDots(mod)
                     tail == SubSeq(mod, dots + 1, Len(mod))
                     src_dir == Parent(PathOf(Split(src_rel, "/")))
                     base == Ascend(src_dir, dots - 1)
                 IN  IF tail # <<>> THEN base \o PathOf(Split(tail, ".")) ELSE base
            ELSE PathOf(Split(mod, "."))
        \* with_suffix of the root itself names a sibling of the root
        py_file == IF cand = <<>> THEN <<>> ELSE WithSuffix(cand, Ext("py"))
        init_file == cand \o <<INIT_PY>>
    IN  IF py_file # <<>> /\ IsFile(f, py_file) THEN _rel(py_file)
        ELSE IF IsFile(f, init_file) THEN _rel(init_file)
        ELSE None

----------------------------------------------------------------------------
(* Import resolution of the context expansion, steps/context_expand.py.  Its *)
(* paths are absolute: the components of the repository root, then those    *)
(* below it.                                                                *)

ROOT_ABS == <<<<"home">>, <<"u">>, <<"repo">>>>

\* Path.is_file of an absolute path: the files of the repository are the
\* only files there are
is_file(f, p) == IsPrefix(ROOT_ABS, p) /\ IsFile(f, SubSeq(p, Len(ROOT_ABS) + 1, Len(p)))

ValueError == <<"ValueError">>

_find_repo_candidates(f) ==
    <<ROOT_ABS>> \o (IF IsDir(f, <<<<"src">>>>) THEN <<ROOT_ABS \o <<<<"src">>>>>> ELSE <<>>)

RECURSIVE _module_to_path(_, _, _)
_module_to_path(f, roots, module) ==
    IF roots = <<>> THEN None
    ELSE LET parts == Split(module, ".")
             r == Head(roots)
             f1 == WithSuffix(r \o PathOf(parts), Ext("py"))
             f2 == (r \o PathOf(parts)) \o <<INIT_PY>>
         IN  IF is_file(f, f1) THEN f1
             ELSE IF is_file(f, f2) THEN f2
             ELSE _module_to_path(f, Tail(roots), module)

\* with_suffix of the filesystem root raises ValueError
_relative_module_to_path(f, roots, base_file, module, level) ==
    LET base_dir == Parent(base_file)
        rel_dir == Ascend(base_dir, level)
        target == IF module # <<>> THEN rel_dir \o PathOf(Split(module, ".")) ELSE rel_dir
    IN  IF target = <<>> THEN ValueError
        ELSE LET f1 == WithSuffix(target, Ext("py"))
                 f2 == target \o <<INIT_PY>>
             IN  IF is_file(f, f1) THEN f1
                 ELSE IF is_file(f, f2) THEN f2
                 ELSE IF module # <<>> THEN _module_to_path(f, roots, module)
                 ELSE None

----------------------------------------------------------------------------
(* The walk *)

BigFileBytes == 2000000

\* os.walk lists a directory's files and its subdirectories in the order the
\* operating system returns them: ord gives, for every directory of the
\* tree, its filenames and its dirnames as sequences.
ListFiles(f, ord, d) == ord[d].files

ListDirs(f, ord, d) == ord[d].dirs

\* the "for fn in filenames" loop of one directory; acc = [files, skipped_big]
RECURSIVE WalkFiles(_, _, _, _, _)
WalkFiles(f, mx, dirpath, filenames, acc) ==
    IF filenames = <<>> THEN acc
    ELSE LET p == dirpath \o <<Head(filenames)>>
             rel_s == _rel(p)
             rest == Tail(filenames)
         IN  IF _is_under_venv(f, PathOf(Split(rel_s, "/")))
             THEN WalkFiles(f, mx, dirpath, rest, acc)
             ELSE IF \/ StartsWith(rel_s, PYBUNDLE_VENV \o <<"/">>)
                     \/ Contains(rel_s, <<"/">> \o SITE_PACKAGES \o <<"/">>)
             THEN WalkFiles(f, mx, dirpath, rest, acc)
             ELSE IF f[p].size > BigFileBytes
             THEN WalkFiles(f, mx, dirpath, rest, [acc EXCEPT !.skipped_big = @ + 1])
             ELSE LET acc2 == [acc EXCEPT !.files = Append(@, p)]
                  IN  IF Len(acc2.files) >= mx THEN acc2
                      ELSE WalkFiles(f, mx, dirpath, rest, acc2)

\* mutant of Pruned: names in the exclude set are kept
PrunedVenvOnly(f, excl, dirpath, dirnames) ==
    LET Keep(dn) == /\ dn # PYBUNDLE_VENV
                    /\ ~_is_venv_root(f, dirpath \o <<dn>>)
    IN  SelectSeq(dirnames, Keep)

\* dirnames after the three pruning assignments
Pruned(f, excl, dirpath, dirnames) ==
    LET Keep(dn) == /\ dn \notin excl
                    /\ dn # PYBUNDLE_VENV
                    /\ ~_is_venv_root(f, dirpath \o <<dn>>)
    IN  SelectSeq(dirnames, Keep)

\* os.walk(d), top-down: pending holds the directories still to be yielded
RECURSIVE WalkTree(_, _, _, _, _, _)
WalkTree(f, mx, excl, ord, pending, acc) ==
    IF pending = <<>> THEN acc
    ELSE LET dirpath == Head(pending)
             dirnames == Pruned(f, excl, dirpath, ListDirs(f, ord, dirpath))
             acc1 == WalkFiles(f, mx, dirpath, ListFiles(f, ord, dirpath), acc)
         IN  IF Len(acc1.files) >= mx THEN acc1
             ELSE WalkTree(f, mx, excl, ord,
                           [i \in 1..Len(dirnames) |-> dirpath \o <<dirnames[i]>>] \o Tail(pending),
                           acc1)

\* the "for d in include_dirs" loop
RECURSIVE WalkRoots(_, _, _, _, _, _)
WalkRoots(f, mx, excl, ord, dirs, acc) ==
    IF dirs = <<>> THEN acc
    ELSE LET d == Head(dirs)
         IN  IF ~Exists(f, d) \/ _is_venv_root(f, d) \/ ~IsDir(f, d)
             THEN WalkRoots(f, mx, excl, ord, Tail(dirs), acc)
             ELSE WalkRoots(f, mx, excl, ord, Tail(dirs),
                            WalkTree(f, mx, excl, ord, <<d>>, acc))

----------------------------------------------------------------------------
(* Graph assembly *)

\* A Python dict is a sequence of [k, v] entries with distinct keys, in
\* insertion order.
DictHas(d, k) == \E i \in 1..Len(d) : d[i].k = k

DictGet(d, k) == d[CHOOSE i \in 1..Len(d) : d[i].k = k].v

\* d[k] = v: a present key keeps its place
DictSet(d, k, v) ==
    IF DictHas(d, k)
    THEN [i \in 1..Len(d) |-> IF d[i].k = k THEN [k |-> k, v |-> v] ELSE d[i]]
    ELSE Append(d, [k |-> k, v |-> v])

DictKeys(d) == {d[i].k : i \in 1..Len(d)}

\* mutant of DictInc: the counter is set, not incremented
DictOne(d, k) == DictSet(d, k, 1)

\* d[k] = d.get(k, 0) + 1
DictInc(d, k) == DictSet(d, k, (IF DictHas(d, k) THEN DictGet(d, k) ELSE 0) + 1)

\* sorted(s, key): Python's sort is stable.  less[i][j] says that the key of
\* s[i] is smaller than the key of s[j].
Sorted(s, less) ==
    LET n == Len(s)
        \* the place of s[i]: after the smaller ones and the equal ones before it
        place == [i \in 1..n |->
                     1 + Cardinality({j \in 1..n : less[j][i]})
                       + Cardinality({j \in 1..(i - 1) : ~less[j][i] /\ ~less[i][j]})]
    IN  [k \in 1..n |-> s[CHOOSE i \in 1..n : place[i] = k]]

Node(rel, p) == [id |-> rel, path |-> rel, lang |-> guess_lang(p)]

Edge(src, dst, type) == [src |-> src, dst |-> dst, type |-> type, note |-> <<>>]

EntryPoint(node, reason, confidence) == [node |-> node, reason |-> reason, confidence |-> confidence]

\* mutant of NodesPut: a list that is appended to, not a dict
NodesAppend(nodes, rel, node) == Append(nodes, [k |-> rel, v |-> node])

\* nodes[rel] = node
NodesPut(nodes, rel, node) == DictSet(nodes, rel, node)

\* "Create nodes": nodes[rel] = Node(...) for every walked file
RECURSIVE CreateNodes(_, _)
CreateNodes(files, nodes) ==
    IF files = <<>> THEN nodes
    ELSE LET rel == _rel(Head(files))
         IN  CreateNodes(Tail(files), NodesPut(nodes, rel, Node(rel, Head(files))))

PyPrefix == <<"py", ":">>
JsPrefix == <<"js", ":">>
RsPrefix == <<"rs", ":">>
RsModPrefix == <<"rsmod", ":">>

\* mutant of PyEdge: a module file found on disk is taken for a node
PyEdgeUnchecked(f, nodes, rel, mod) ==
    LET resolved == _resolve_py_to_node(f, rel, mod)
    IN  IF resolved # None
        THEN Edge(rel, resolved, "import")
        ELSE Edge(rel, PyPrefix \o mod, "import")

PyEdge(f, nodes, rel, mod) ==
    LET resolved == _resolve_py_to_node(f, rel, mod)
    IN  IF resolved # None /\ DictHas(nodes, resolved)
        THEN Edge(rel, resolved, "import")
        ELSE Edge(rel, PyPrefix \o mod, "import")

JsEdge(rel, spec) == Edge(rel, JsPrefix \o spec, "import")

RustUseEdge(rel, u) == Edge(rel, RsPrefix \o u, "use")

\* mutant of RustModEdge: the prefix of a use path
RustModEdgeAsUse(rel, m) == Edge(rel, RsPrefix \o m, "mod")

RustModEdge(rel, m) == Edge(rel, RsModPrefix \o m, "mod")

\* the edges one walked file contributes
FileEdges(f, nodes, p) ==
    LET rel == _rel(p)
        lang == DictGet(nodes, rel).lang
        text == read_text(f, p)
    IN  IF lang = "python"
        THEN LET mods == scan_python_imports(text)
             IN  [i \in 1..Len(mods) |-> PyEdge(f, nodes, rel, mods[i])]
        ELSE IF lang \in {"js", "ts"}
        THEN LET specs == scan_js_imports(text)
             IN  [i \in 1..Len(specs) |-> JsEdge(rel, specs[i])]
        ELSE IF lang = "rust"
        THEN LET r == scan_rust_uses(text)
             IN  [i \in 1..Len(r.uses) |-> RustUseEdge(rel, r.uses[i])]
                 \o [i \in 1..Len(r.mods) |-> RustModEdge(rel, r.mods[i])]
        ELSE <<>>

\* "Scan edges" reads the text of a js, ts, rust, html or config file outside
\* any try block: an OSError of read_text leaves build_roadmap
TextLangs == {"js", "ts", "rust", "html", "config"}

Raises(f, files) ==
    \E i \in 1..Len(files) : guess_lang(files[i]) \in TextLangs /\ read_text(f, files[i]) = OS_ERROR

\* "Scan edges": every entry of files, a repeated one again
RECURSIVE ScanEdges(_, _, _)
ScanEdges(f, nodes, files) ==
    IF files = <<>> THEN <<>>
    ELSE FileEdges(f, nodes, Head(files)) \o ScanEdges(f, nodes, Tail(files))

MAIN_PY == <<"__main__", ".", "py">>
MAIN_RS == <<"main", ".", "rs">>
PACKAGE_JSON == <<"package", ".", "json">>
PYPROJECT_TOML == <<"pyproject", ".", "toml">>
HintCli == Join(<<<<"src">>, <<"pybundle">>, <<"cli", ".", "py">>>>, "/")
HintInit == Join(<<<<"src">>, <<"pybundle">>, INIT_PY>>, "/")

\* reasons in ascending string order
ReasonOrder == <<"likely CLI/module entry",
                 "node package.json scripts",
                 "python __main__.py",
                 "python pyproject.toml (scripts/entrypoints likely)",
                 "rust main.rs">>

ReasonRank(r) == CHOOSE i \in 1..Len(ReasonOrder) : ReasonOrder[i] = r

\* key (node, -confidence, reason)
EpLess(a, b) ==
    IF a.node # b.node THEN StrLess(a.node, b.node)
    ELSE IF a.confidence # b.confidence THEN -a.confidence < -b.confidence
    ELSE ReasonRank(a.reason) < ReasonRank(b.reason)

ByEpKey(s) == [i \in 1..Len(s) |-> [j \in 1..Len(s) |-> EpLess(s[i], s[j])]]

\* mutant of RuleEps: pyproject.toml ranked 0
RuleEpsUnranked(n) ==
    IF EndsWith(n.path, MAIN_PY) THEN {EntryPoint(n.id, "python __main__.py", 3)}
    ELSE IF EndsWith(n.path, MAIN_RS) THEN {EntryPoint(n.id, "rust main.rs", 3)}
    ELSE IF n.path = PACKAGE_JSON THEN {EntryPoint(n.id, "node package.json scripts", 2)}
    ELSE IF n.path = PYPROJECT_TOML
    THEN {EntryPoint(n.id, "python pyproject.toml (scripts/entrypoints likely)", 0)}
    ELSE {}

RuleEps(n) ==
    IF EndsWith(n.path, MAIN_PY) THEN {EntryPoint(n.id, "python __main__.py", 3)}
    ELSE IF EndsWith(n.path, MAIN_RS) THEN {EntryPoint(n.id, "rust main.rs", 3)}
    ELSE IF n.path = PACKAGE_JSON THEN {EntryPoint(n.id, "node package.json scripts", 2)}
    ELSE IF n.path = PYPROJECT_TOML
    THEN {EntryPoint(n.id, "python pyproject.toml (scripts/entrypoints likely)", 1)}
    ELSE {}

SetToSeq(S) ==
    LET RECURSIVE Enum(_)
        Enum(T) == IF T = {} THEN <<>> ELSE LET x == CHOOSE y \in T : TRUE IN <<x>> \o Enum(T \ {x})
    IN  Enum(S)

detect_entrypoints_from_nodes(nodes) ==
    LET uniq == UNION {RuleEps(nodes[i].v) : i \in 1..Len(nodes)}
                \cup {EntryPoint(h, "likely CLI/module entry", 1) :
                          h \in {x \in {HintCli, HintInit} : DictHas(nodes, x)}}
    IN  LET eps == SetToSeq(uniq) IN Sorted(eps, ByEpKey(eps))

\* "Stats"
RECURSIVE CountNodes(_, _)
CountNodes(nodes, stats) ==
    IF nodes = <<>> THEN stats
    ELSE CountNodes(Tail(nodes), DictInc(stats, <<"nodes_", Head(nodes).v.lang>>))

RECURSIVE CountEdges(_, _)
CountEdges(edges, stats) ==
    IF edges = <<>> THEN stats
    ELSE CountEdges(Tail(edges), DictInc(stats, <<"edges_", Head(edges).type>>))

Stats(nodes, edges, skipped_big) ==
    DictSet(CountEdges(edges, CountNodes(nodes, <<>>)), <<"skipped_big_files">>, skipped_big)

\* mutant of ByNodeKey: no key, the stable sort keeps the insertion order
ByNoKey(s) == [i \in 1..Len(s) |-> [j \in 1..Len(s) |-> FALSE]]

NodeLess(a, b) == StrLess(a.id, b.id)

ByNodeKey(s) == [i \in 1..Len(s) |-> [j \in 1..Len(s) |-> NodeLess(s[i], s[j])]]

EdgeLess(a, b) == TupleLess(<<a.src, a.dst, <<a.type>>, a.note>>, <<b.src, b.dst, <<b.type>>, b.note>>)

ByEdgeKey(s) == [i \in 1..Len(s) |-> [j \in 1..Len(s) |-> EdgeLess(s[i], s[j])]]

RootName == "repo"

\* the part of build_roadmap after the walk
Assemble(f, w) ==
    LET nodes == CreateNodes(w.files, <<>>)
        edges == ScanEdges(f, nodes, w.files)
        eps == detect_entrypoints_from_nodes(nodes)
        stats == Stats(nodes, edges, w.skipped_big)
        values == [i \in 1..Len(nodes) |-> nodes[i].v]
    IN  [version |-> 1,
         root |-> RootName,
         nodes |-> Sorted(values, ByNodeKey(values)),
         edges |-> Sorted(edges, ByEdgeKey(edges)),
         entrypoints |-> Sorted(eps, ByEpKey(eps)),
         stats |-> stats]

Walk(f, dirs, excl, mx, ord) == WalkRoots(f, mx, excl, ord, dirs, [files |-> <<>>, skipped_big |-> 0])

build_roadmap(f, dirs, excl, mx, ord) == Assemble(f, Walk(f, dirs, excl, mx, ord))

\* json.dumps(graph.to_dict(), indent=2): lists in list order, a dict's
\* keys in insertion order
JsonDumps(g) ==
    <<<<"version", g.version>>,
      <<"root", g.root>>,
      <<"nodes", [i \in 1..Len(g.nodes) |-> <<g.nodes[i].id, g.nodes[i].path, g.nodes[i].lang>>]>>,
      <<"edges", [i \in 1..Len(g.edges) |->
                     <<g.edges[i].src, g.edges[i].dst, g.edges[i].type, g.edges[i].note>>]>>,
      <<"entrypoints", [i \in 1..Len(g.entrypoints) |->
                     <<g.entrypoints[i].node, g.entrypoints[i].reason, g.entrypoints[i].confidence>>]>>,
      <<"stats", [i \in 1..Len(g.stats) |-> <<g.stats[i].k, g.stats[i].v>>]>>>>

----------------------------------------------------------------------------
(* The scanned trees *)

A_PY == <<"a", ".", "py">>
B_PY == <<"b", ".", "py">>
M_TS == <<"m", ".", "ts">>
PY_COLON_B == <<"py", ":", "b">>      \* a file whose name is py:b
PKG == <<"pkg">>
BUILD == <<"build">>

PyImport(m) == [k |-> "import", names |-> <<m>>]
PyFrom(l, m) == [k |-> "from", level |-> l, module |-> m]
JsImport(x) == [k |-> "jsimport", spec |-> x]
Require(x) == [k |-> "require", spec |-> x]
RustUse(x) == [k |-> "use", path |-> x]
RustMod(x) == [k |-> "mod", name |-> x]

PyTexts == {<<>>,
            <<PyImport(<<"b">>)>>,
            <<PyImport(<<"pkg", ".", "b">>), PyFrom(1, <<"b">>)>>}

TsTexts == {<<>>, <<Require(<<"b">>), JsImport(<<".", "/", "u">>)>>}

RsTexts == {<<>>, <<RustMod(<<"m">>), RustUse(<<"std", ":", ":", "m">>)>>}

\* the files a tree may hold, each with the texts it may have
TreePaths == {<<A_PY>>, <<B_PY>>, <<PY_COLON_B>>, <<PKG, A_PY>>, <<PKG, B_PY>>,
              <<PKG, M_TS>>, <<PKG, MAIN_RS>>, <<BUILD, B_PY>>}

TextsOf(p) ==
    IF p[Len(p)] = A_PY THEN PyTexts
    ELSE IF p[Len(p)] = M_TS THEN TsTexts
    ELSE IF p[Len(p)] = MAIN_RS THEN RsTexts
    ELSE {<<>>}

Sizes == {BigFileBytes, BigFileBytes + 1}

\* the sizes a file may have: the b.py files may exceed the threshold
SizesOf(p) == IF p[Len(p)] = B_PY /\ p[1] # BUILD THEN Sizes ELSE {BigFileBytes}

Trees ==
    UNION {{f \in [S -> [size : Sizes, content : PyTexts \cup TsTexts \cup RsTexts, readable : {TRUE}]] :
                \A p \in S : f[p].content \in TextsOf(p) /\ f[p].size \in SizesOf(p)} :
           S \in {T \in SUBSET TreePaths : Cardinality(T) <= MaxTreeFiles}}

DefaultMaxFiles == 20000

IncludeChoices == {<<Root>>, <<<<PKG>>>>, <<<<PKG>>, <<PKG>>>>, <<Root, <<PKG>>>>, <<<<PKG>>, Root>>}

ExcludeChoices == {{}, {BUILD}}

MaxFilesChoices == {1, DefaultMaxFiles}

\* the sequences that hold every element of S once
Perms(S) == {o \in [1..Cardinality(S) -> S] : \A i, j \in 1..Cardinality(S) : o[i] = o[j] => i = j}

\* the directories of tree f
AllDirs(f) == {Root} \cup UNION {{SubSeq(p, 1, k) : k \in 1..(Len(p) - 1)} : p \in DOMAIN f}

\* the orders in which the operating system may list the directories of f
RECURSIVE OrdersOver(_, _)
OrdersOver(f, D) ==
    IF D = {} THEN {<<>>}
    ELSE LET d == CHOOSE x \in D : TRUE
         IN  {(d :> [files |-> fl, dirs |-> dl]) @@ o :
                  fl \in Perms(ChildFiles(f, d)), dl \in Perms(ChildDirs(f, d)),
                  o \in OrdersOver(f, D \ {d})}

Orders(f) == OrdersOver(f, AllDirs(f))

\* trees with directories shaped like virtual environments, under a name
\* that no exclude set need hold
ENV == <<"env">>
BIN == <<"bin">>
PlainFile == [size |-> BigFileBytes, content |-> <<>>, readable |-> TRUE]

VenvPaths == {<<A_PY>>, <<PKG, A_PY>>, <<ENV, PYVENV_CFG>>, <<ENV, A_PY>>, <<ENV, PKG, A_PY>>,
              <<ENV, BIN, <<"python">>>>, <<ENV, BIN, <<"activate">>>>}

VenvTrees == {[p \in S |-> PlainFile] : S \in {T \in SUBSET VenvPaths : Cardinality(T) <= MaxTreeFiles}}

VenvIncludeChoices == {<<Root>>, <<<<ENV>>>>, <<<<ENV, PKG>>>>, <<<<PKG>>, Root>>}

VenvExcludeChoices == {{}, {ENV}}

SRC == <<"src">>
TESTS == <<"tests">>

\* policy.py
DEFAULT_EXCLUDE_DIRS ==
    {<<".", "git">>, <<".", "hg">>, <<".", "svn">>,
     <<".", "venv">>, <<"venv">>, <<".", "direnv">>,
     <<".", "mypy_cache">>, <<".", "ruff_cache">>, <<".", "pytest_cache">>, <<"__pycache__">>,
     <<"node_modules">>,
     <<"dist">>, <<"build">>, <<"target">>, <<"out">>,
     <<".", "next">>, <<".", "nuxt">>, <<".", "svelte-kit">>,
     <<"artifacts">>,
     <<".", "cache">>}

DEFAULT_INCLUDE_DIRS ==
    <<<<"src">>, <<"app">>, <<"tests">>, <<"tools">>, <<"docs">>, <<".", "github">>,
      <<"templates">>, <<"static">>, <<"frontend">>, <<"web">>, <<"ui">>, <<"gaslog-desktop">>>>

roadmap_max_files == 20000

\* AIContextPolicy.include_dir_candidates(root)
include_dir_candidates(f) ==
    LET paths == [i \in 1..Len(DEFAULT_INCLUDE_DIRS) |-> Root \o <<DEFAULT_INCLUDE_DIRS[i]>>]
        out == SelectSeq(paths, LAMBDA p : Exists(f, p))
    IN  IF out # <<>> THEN out ELSE <<Root>>

\* RoadmapStep.run, the list made first: root / p for each configured
\* path, or else the source trees that exist, or else the root
STEP_CANDIDATES ==
    <<<<"src">>, <<"pybundle">>, <<"src-tauri">>, <<"frontend">>, <<"web">>, <<"ui">>,
      <<"templates">>, <<"static">>>>

StepIncludeDirs(f, inc) ==
    IF inc # <<>>
    THEN [i \in 1..Len(inc) |-> Root \o inc[i]]
    ELSE LET paths == [i \in 1..Len(STEP_CANDIDATES) |-> Root \o <<STEP_CANDIDATES[i]>>]
             found == SelectSeq(paths, LAMBDA p : Exists(f, p))
         IN  IF found # <<>> THEN found ELSE <<Root>>

\* the include lists a RoadmapStep may be configured with
StepIncludeChoices == {None, <<<<TESTS>>>>, <<<<SRC>>, <<TESTS>>>>}

\* the artifacts of RoadmapStep
OUT_JSON == "meta/70_roadmap.json"
OUT_MD == "meta/70_roadmap.md"
OUT_SUMMARY == "meta/71_roadmap_summary.json"

SyntaxError == <<[k |-> "syntax_error"]>>

\* the repositories handed to the roadmap step: files that may be
\* unreadable, Python files that may not parse
StepPaths == {<<A_PY>>, <<B_PY>>, <<SRC, A_PY>>, <<SRC, B_PY>>, <<SRC, M_TS>>, <<SRC, MAIN_RS>>,
              <<TESTS, A_PY>>, <<BUILD, A_PY>>}

StepTextsOf(p) ==
    IF p[Len(p)] = A_PY THEN {<<>>, <<PyImport(<<"b">>)>>, SyntaxError}
    ELSE IF p[Len(p)] = M_TS THEN TsTexts
    ELSE {<<>>}

StepReadableOf(p) == IF p[Len(p)] \in {A_PY, M_TS, MAIN_RS} THEN BOOLEAN ELSE {TRUE}

StepTrees ==
    UNION {{f \in [S -> [size : {BigFileBytes}, content : PyTexts \cup TsTexts \cup {SyntaxError},
                         readable : BOOLEAN]] :
                \A p \in S : f[p].content \in StepTextsOf(p) /\ f[p].readable \in StepReadableOf(p)} :
           S \in {T \in SUBSET StepPaths : Cardinality(T) <= MaxTreeFiles}}

\* trees with files beneath directories named build; the b.py files may
\* exceed the size threshold
ExclPaths == {<<A_PY>>, <<BUILD, A_PY>>, <<BUILD, B_PY>>, <<BUILD, PKG, A_PY>>, <<PKG, A_PY>>,
              <<PKG, BUILD, B_PY>>}

ExclTrees ==
    UNION {{f \in [S -> [size : Sizes, content : {<<>>}, readable : {TRUE}]] :
                \A p \in S : p[Len(p)] # B_PY => f[p].size = BigFileBytes} :
           S \in {T \in SUBSET ExclPaths : Cardinality(T) <= MaxTreeFiles}}

ExclIncludeChoices == {<<Root>>, <<<<PKG>>>>, <<Root, <<PKG>>>>}

\* trees with entry files, scanned through include roots in either order
OrderPaths == {<<MAIN_PY>>, <<PKG, MAIN_RS>>, <<PYPROJECT_TOML>>, <<A_PY>>, <<PKG, A_PY>>, <<B_PY>>}

OrderTrees ==
    UNION {{f \in [S -> [size : {BigFileBytes}, content : PyTexts \cup RsTexts, readable : {TRUE}]] :
                \A p \in S : f[p].content \in TextsOf(p)} :
           S \in {T \in SUBSET OrderPaths : Cardinality(T) <= MaxTreeFiles}}

NoGraph == [version |-> 0, root |-> RootName, nodes |-> <<>>, edges |-> <<>>,
            entrypoints |-> <<>>, stats |-> <<>>]

NoWalk == [files |-> <<>>, skipped_big |-> 0]

----------------------------------------------------------------------------
(* The bounded renderer, RoadmapStep._render_mermaid_bfs *)

ARROW == "\" --> \""

\* f'  "{node}" --> "{dst}"'
EdgeLine(node, dst) == <<"  \"">> \o node \o <<ARROW>> \o dst \o <<"\"">>

NoEntrypointsLine == <<"  A[\"(no entrypoints)\"]">>

NoEdgesLine == <<"  A[\"(no edges rendered)\"]">>

\* adj.setdefault(e.src, []).append(e.dst) over graph.edges: the sources in
\* the order of their first edge, each with its destinations in edge order
BuildAdj(edges) ==
    LET first == {i \in 1..Len(edges) : \A j \in 1..(i - 1) : edges[j].src # edges[i].src}
        nth(k) == CHOOSE i \in first : Cardinality({j \in first : j < i}) = k - 1
        dsts(s) == LET From(e) == e.src = s
                       es == SelectSeq(edges, From)
                   IN  [i \in 1..Len(es) |-> es[i].dst]
    IN  [k \in 1..Cardinality(first) |-> [k |-> edges[nth(k)].src, v |-> dsts(edges[nth(k)].src)]]

\* adj.get(node, [])
AdjGet(a, node) == IF DictHas(a, node) THEN DictGet(a, node) ELSE <<>>

\* mutant of Entry: without entrypoints the traversal is seeded at the edge sources
EntryOrSources(g) ==
    IF g.entrypoints # <<>> THEN [i \in 1..Len(g.entrypoints) |-> g.entrypoints[i].node]
    ELSE [i \in 1..Len(g.edges) |-> g.edges[i].src]

Entry(g) == [i \in 1..Len(g.entrypoints) |-> g.entrypoints[i].node]

SeqToSet(s) == {s[i] : i \in 1..Len(s)}

\* mutant of PopLeft: the first element is read, not removed
PeekLeft(d) == d

\* q.popleft(): the deque without its first element
PopLeft(d) == Tail(d)

\* mutant of DepthReached: off by one
DepthExceeded(depth, max_depth) == depth > max_depth

\* mutant of DepthReached: the last level is not expanded
DepthNear(depth, max_depth) == depth + 1 >= max_depth

\* "if depth >= max_depth: continue"
DepthReached(depth, max_depth) == depth >= max_depth

\* mutant of SeenEdge: no visited-edge set
SeenEdgeNever(key, seen) == FALSE

\* "if key in seen_edges: continue"
SeenEdge(key, seen) == key \in seen

\* mutant of Unseen: no visited-node set
UnseenNever(dst, seen) == TRUE

\* "if dst not in seen_nodes"
Unseen(dst, seen) == dst \notin seen

\* mutant of CapReached: the cap is tested by the while loop only
CapIgnored(lines, max_edges) == FALSE

\* "if len(shown) >= max_edges: break"
CapReached(lines, max_edges) == Len(lines) >= max_edges

\* _render_mermaid_bfs up to the while loop
RenderBegin ==
    /\ pc = "start"
    /\ adj' = BuildAdj(r_graph.edges)
    /\ LET entry == Entry(r_graph)
       IN  IF entry = <<>>
           THEN /\ result' = <<NoEntrypointsLine>>
                /\ pc' = "done"
                /\ UNCHANGED <<q, seen_nodes, enqueued>>
           ELSE /\ q' = [i \in 1..Len(entry) |-> <<entry[i], 0>>]
                /\ enqueued' = entry
                /\ seen_nodes' = SeqToSet(entry)
                /\ pc' = "while"
                /\ UNCHANGED result
    /\ seen_edges' = {}
    /\ shown' = <<>>
    /\ UNCHANGED <<r_graph, r_max_depth, r_max_edges, cur, todo, expanded, scanVars, callVars, runVars>>

\* the while test succeeds: pop a node
RenderPop ==
    /\ pc = "while"
    /\ q # <<>> /\ Len(shown) < r_max_edges
    /\ cur' = Head(q)
    /\ q' = PopLeft(q)
    /\ IF DepthReached(Head(q)[2], r_max_depth)
       THEN /\ pc' = "while"
            /\ UNCHANGED <<todo, expanded>>
       ELSE /\ todo' = AdjGet(adj, Head(q)[1])
            /\ expanded' = expanded \cup {Head(q)}
            /\ pc' = "for"
    /\ UNCHANGED <<r_graph, r_max_depth, r_max_edges, adj, seen_edges, seen_nodes, shown, enqueued, result,
                   scanVars, callVars, runVars>>

\* one iteration of "for dst in adj.get(node, [])"
RenderFor ==
    /\ pc = "for"
    /\ todo # <<>>
    /\ LET node == cur[1]
           depth == cur[2]
           dst == Head(todo)
           key == <<node, dst>>
       IN  IF SeenEdge(key, seen_edges)
           THEN /\ todo' = Tail(todo)
                /\ UNCHANGED <<seen_edges, shown, seen_nodes, q, enqueued, pc>>
           ELSE /\ seen_edges' = seen_edges \cup {key}
                /\ shown' = Append(shown, EdgeLine(node, dst))
                /\ IF Unseen(dst, seen_nodes)
                   THEN /\ seen_nodes' = seen_nodes \cup {dst}
                        /\ q' = Append(q, <<dst, depth + 1>>)
                        /\ enqueued' = Append(enqueued, dst)
                   ELSE UNCHANGED <<seen_nodes, q, enqueued>>
                /\ IF CapReached(shown', r_max_edges)
                   THEN pc' = "while" /\ UNCHANGED todo
                   ELSE todo' = Tail(todo) /\ UNCHANGED pc
    /\ UNCHANGED <<r_graph, r_max_depth, r_max_edges, adj, cur, expanded, result, scanVars, callVars, runVars>>

\* the for loop is exhausted
RenderForEnd ==
    /\ pc = "for"
    /\ todo = <<>>
    /\ pc' = "while"
    /\ UNCHANGED <<r_graph, r_max_depth, r_max_edges, adj, q, seen_edges, seen_nodes, shown,
                   cur, todo, expanded, enqueued, result, scanVars, callVars, runVars>>

\* the while test fails: return shown or the placeholder
RenderReturn ==
    /\ pc = "while"
    /\ ~(q # <<>> /\ Len(shown) < r_max_edges)
    /\ result' = IF shown # <<>> THEN shown ELSE <<NoEdgesLine>>
    /\ pc' = "done"
    /\ UNCHANGED <<r_graph, r_max_depth, r_max_edges, adj, q, seen_edges, seen_nodes, shown,
                   cur, todo, expanded, enqueued, scanVars, callVars, runVars>>

\* graphs handed to the renderer: edge list and entrypoint list sorted as
\* build_roadmap leaves them
RNodes == {<<"a">>, <<"b">>, <<"c">>}

\* an import edge between any two ids, and a use edge from a to c
REdges == {Edge(x, y, "import") : x \in RNodes, y \in RNodes} \cup {Edge(<<"a">>, <<"c">>, "use")}

REdgeLists ==
    {s \in UNION {[1..n -> REdges] : n \in 0..MaxREdges} :
        \A i \in 1..(Len(s) - 1) : ~EdgeLess(s[i + 1], s[i])}

REntryLists ==
    {LET eps == SetToSeq({EntryPoint(n, "rust main.rs", 3) : n \in S})
     IN  Sorted(eps, ByEpKey(eps)) : S \in SUBSET RNodes}

----------------------------------------------------------------------------
(* The profile runner, run_profile *)

StepStatuses == {"PASS", "FAIL", "SKIP"}

StepResult(name, status) == [name |-> name, status |-> status]

\* mutant of BreakOnFail: the loop never breaks
BreakNever(status, strict_flag) == FALSE

\* "if r.status == "FAIL": ... if ctx.strict: break"
BreakOnFail(status, strict_flag) == status = "FAIL" /\ strict_flag

EXIT_STRICT_FAIL == 10

\* run_profile up to the for loop
RunBegin ==
    /\ run_pc = "start"
    /\ results' = <<>>
    /\ any_fail' = FALSE
    /\ run_pc' = "for"
    /\ UNCHANGED <<strict, steps, archive, rc, scanVars, renderVars, callVars>>

\* one iteration of "for step in profile.steps": the step runs and returns
\* a result of any status
RunStep ==
    /\ run_pc = "for"
    /\ Len(results) < Len(steps)
    /\ \E status \in StepStatuses :
           LET step == steps[Len(results) + 1]
           IN  /\ results' = Append(results, StepResult(step, status))
               /\ any_fail' = (any_fail \/ status = "FAIL")
               /\ run_pc' = IF BreakOnFail(status, strict) THEN "after" ELSE "for"
    /\ UNCHANGED <<strict, steps, archive, rc, scanVars, renderVars, callVars>>

\* the for loop is exhausted
RunForEnd ==
    /\ run_pc = "for"
    /\ Len(results) = Len(steps)
    /\ run_pc' = "after"
    /\ UNCHANGED <<strict, steps, results, any_fail, archive, rc, scanVars, renderVars, callVars>>

\* the summary is written, the archive made and the code returned
RunFinish ==
    /\ run_pc = "after"
    /\ archive' = TRUE
    /\ rc' = IF any_fail /\ strict THEN <<EXIT_STRICT_FAIL>> ELSE <<0>>
    /\ run_pc' = "returned"
    /\ UNCHANGED <<strict, steps, results, any_fail, scanVars, renderVars, callVars>>

----------------------------------------------------------------------------
(* Specifications *)

ScanIdle ==
    /\ root_exists = TRUE
    /\ fs = <<>>
    /\ include_dirs = <<>>
    /\ exclude_dirs = {}
    /\ max_files = DefaultMaxFiles
    /\ walk = NoWalk
    /\ graph = NoGraph
    /\ out_json = <<>>
    /\ prev_json = <<>>
    /\ outcome = "none"
    /\ step_status = "none"
    /\ written = {}
    /\ include = None

NoCall == [name |-> "none", args |-> <<>>]

CallIdle == call = NoCall /\ ret = <<>>

RunLocalsInit ==
    /\ results = <<>>
    /\ any_fail = FALSE
    /\ archive = FALSE
    /\ rc = <<>>

RunIdle ==
    /\ strict = FALSE
    /\ steps = <<>>
    /\ RunLocalsInit
    /\ run_pc = "idle"

RenderLocalsInit ==
    /\ adj = <<>>
    /\ q = <<>>
    /\ seen_edges = {}
    /\ seen_nodes = {}
    /\ shown = <<>>
    /\ cur = <<>>
    /\ todo = <<>>
    /\ expanded = {}
    /\ enqueued = <<>>
    /\ result = <<>>

RenderIdle ==
    /\ r_graph = NoGraph
    /\ r_max_depth = 0
    /\ r_max_edges = 0
    /\ RenderLocalsInit
    /\ pc = "idle"

\* build_roadmap(root, dirs, excl, mx) and the write of its JSON, the walk
\* listing entries in any order: the call returns a graph, which is
\* serialized, or an OSError leaves it and nothing is written
Scan(dirs, excl, mx) ==
    \E ord \in Orders(fs) :
        LET w == Walk(fs, dirs, excl, mx, ord)
            g == Assemble(fs, w)
        IN  /\ walk' = w
            /\ IF Raises(fs, w.files)
               THEN /\ outcome' = "raised"
                    /\ UNCHANGED <<graph, out_json, prev_json>>
               ELSE /\ outcome' = "returned"
                    /\ graph' = g
                    /\ out_json' = JsonDumps(g)
                    /\ prev_json' = out_json

\* One call of build_roadmap on the tree with the arguments given.  A tree
\* is scanned and scanned once again.
BuildRoadmap ==
    /\ prev_json = <<>>
    /\ Scan(include_dirs, exclude_dirs, max_files)
    /\ UNCHANGED <<root_exists, fs, include_dirs, exclude_dirs, max_files, step_status, written, include,
                   renderVars, callVars, runVars>>

Init ==
    /\ root_exists = TRUE
    /\ fs \in Trees
    /\ include_dirs \in IncludeChoices
    /\ exclude_dirs \in (IF IsDir(fs, <<BUILD>>) THEN ExcludeChoices ELSE {{}})
    /\ max_files \in MaxFilesChoices
    /\ walk = NoWalk
    /\ graph = NoGraph
    /\ out_json = <<>>
    /\ prev_json = <<>>
    /\ outcome = "none"
    /\ step_status = "none"
    /\ written = {}
    /\ include = None
    /\ RenderIdle
    /\ CallIdle
    /\ RunIdle

Next == BuildRoadmap

Spec == Init /\ [][Next]_vars

\* scans of trees that hold virtual environments
VenvInit ==
    /\ root_exists = TRUE
    /\ fs \in VenvTrees
    /\ include_dirs \in VenvIncludeChoices
    /\ exclude_dirs \in VenvExcludeChoices
    /\ max_files = DefaultMaxFiles
    /\ walk = NoWalk
    /\ graph = NoGraph
    /\ out_json = <<>>
    /\ prev_json = <<>>
    /\ outcome = "none"
    /\ step_status = "none"
    /\ written = {}
    /\ include = None
    /\ RenderIdle
    /\ CallIdle
    /\ RunIdle

VenvSpec == VenvInit /\ [][Next]_vars

\* scans of trees that hold directories named build, at the top and deeper
ExclInit ==
    /\ root_exists = TRUE
    /\ fs \in ExclTrees
    /\ include_dirs \in ExclIncludeChoices
    /\ exclude_dirs \in ExcludeChoices
    /\ max_files \in MaxFilesChoices
    /\ walk = NoWalk
    /\ graph = NoGraph
    /\ out_json = <<>>
    /\ prev_json = <<>>
    /\ outcome = "none"
    /\ step_status = "none"
    /\ written = {}
    /\ include = None
    /\ RenderIdle
    /\ CallIdle
    /\ RunIdle

ExclSpec == ExclInit /\ [][Next]_vars

\* scans of trees that hold entry files
OrderInit ==
    /\ root_exists = TRUE
    /\ fs \in OrderTrees
    /\ include_dirs \in IncludeChoices
    /\ exclude_dirs = {}
    /\ max_files = DefaultMaxFiles
    /\ walk = NoWalk
    /\ graph = NoGraph
    /\ out_json = <<>>
    /\ prev_json = <<>>
    /\ outcome = "none"
    /\ step_status = "none"
    /\ written = {}
    /\ include = None
    /\ RenderIdle
    /\ CallIdle
    /\ RunIdle

OrderSpec == OrderInit /\ [][Next]_vars

\* RoadmapStep.run with the default policy: the include roots are the
\* policy's candidates, the graph is built and serialized, the Markdown and
\* the summary are written and the step passes; an exception of
\* build_roadmap leaves run before anything is written
RoadmapStepRun ==
    /\ step_status = "none"
    /\ LET configured == StepIncludeDirs(fs, include)
           \* "include_dirs = [p for p in policy.include_dir_candidates(ctx.root)]"
           \* replaces the list made from the configuration
           dirs == include_dir_candidates(fs)
       IN  /\ include_dirs' = dirs
           /\ Scan(dirs, DEFAULT_EXCLUDE_DIRS, roadmap_max_files)
    /\ exclude_dirs' = DEFAULT_EXCLUDE_DIRS
    /\ max_files' = roadmap_max_files
    /\ IF outcome' = "raised"
       THEN /\ step_status' = "raised"
            /\ written' = written
       ELSE /\ step_status' = "PASS"
            /\ written' = written \cup {OUT_JSON, OUT_MD, OUT_SUMMARY}
    /\ UNCHANGED <<root_exists, fs, include, renderVars, callVars, runVars>>

\* a repository root, present or missing, handed to the roadmap step
StepInit ==
    /\ root_exists \in BOOLEAN
    /\ fs \in (IF root_exists THEN StepTrees ELSE {<<>>})
    /\ include_dirs = <<>>
    /\ exclude_dirs = {}
    /\ max_files = DefaultMaxFiles
    /\ walk = NoWalk
    /\ graph = NoGraph
    /\ out_json = <<>>
    /\ prev_json = <<>>
    /\ outcome = "none"
    /\ step_status = "none"
    /\ written = {}
    /\ include \in StepIncludeChoices
    /\ RenderIdle
    /\ CallIdle
    /\ RunIdle

StepNext == RoadmapStepRun

StepSpec == StepInit /\ [][StepNext]_vars

\* a file named a__main__.py
A_MAIN_PY == <<"a", "__main__", ".", "py">>

\* the node dicts handed to detect_entrypoints_from_nodes: build_roadmap
\* keys every node by its repo-relative path, which is also its id
EpPaths == {<<MAIN_PY>>, <<PKG, MAIN_PY>>, <<PKG, MAIN_RS>>, <<PACKAGE_JSON>>, <<PKG, PACKAGE_JSON>>,
            <<PYPROJECT_TOML>>, <<<<"src">>, <<"pybundle">>, <<"cli", ".", "py">>>>,
            <<<<"src">>, <<"pybundle">>, INIT_PY>>, <<A_PY>>, <<A_MAIN_PY>>}

EpNodeDicts ==
    {[i \in 1..Len(ps) |-> [k |-> _rel(ps[i]), v |-> Node(_rel(ps[i]), ps[i])]] :
        ps \in UNION {Perms(S) : S \in {T \in SUBSET EpPaths : Cardinality(T) <= MaxEpNodes}}}

EpInit ==
    /\ ScanIdle
    /\ RenderIdle
    /\ call \in {[name |-> "detect_entrypoints_from_nodes", args |-> <<nodes>>] : nodes \in EpNodeDicts}
    /\ ret = <<>>
    /\ RunIdle

\* the call returns its list of entrypoints
CallDetectEntrypoints ==
    /\ call.name = "detect_entrypoints_from_nodes"
    /\ ret = <<>>
    /\ ret' = <<detect_entrypoints_from_nodes(call.args[1])>>
    /\ UNCHANGED <<call, scanVars, renderVars, runVars>>

EpNext == CallDetectEntrypoints

EpSpec == EpInit /\ [][EpNext]_vars

\* the repositories and the relative imports handed to
\* _relative_module_to_path: base_file is a Python file of the repository
SUB == <<"sub">>

ExpandPaths == {<<A_PY>>, <<B_PY>>, <<PKG, A_PY>>, <<PKG, B_PY>>, <<PKG, INIT_PY>>,
                <<PKG, SUB, A_PY>>, <<SRC, B_PY>>}

ExpandTrees ==
    {[p \in S |-> PlainFile] : S \in {T \in SUBSET ExpandPaths : Cardinality(T) <= MaxTreeFiles}}

RelativeModules == {None, <<"b">>}

RelativeLevels == {1, 2}

ExpandInit ==
    /\ root_exists = TRUE
    /\ fs \in ExpandTrees
    /\ include_dirs = <<>>
    /\ exclude_dirs = {}
    /\ max_files = DefaultMaxFiles
    /\ walk = NoWalk
    /\ graph = NoGraph
    /\ out_json = <<>>
    /\ prev_json = <<>>
    /\ outcome = "none"
    /\ step_status = "none"
    /\ written = {}
    /\ include = None
    /\ RenderIdle
    /\ call \in {[name |-> "_relative_module_to_path",
                  args |-> <<_find_repo_candidates(fs), ROOT_ABS \o b, m, l>>] :
                     b \in {p \in DOMAIN fs : p[Len(p)] = A_PY}, m \in RelativeModules, l \in RelativeLevels}
    /\ ret = <<>>
    /\ RunIdle

\* the call returns a path, or None
CallRelativeModuleToPath ==
    /\ call.name = "_relative_module_to_path"
    /\ ret = <<>>
    /\ ret' = <<_relative_module_to_path(fs, call.args[1], call.args[2], call.args[3], call.args[4])>>
    /\ UNCHANGED <<call, scanVars, renderVars, runVars>>

ExpandNext == CallRelativeModuleToPath

ExpandSpec == ExpandInit /\ [][ExpandNext]_vars

\* a run of a profile of up to MaxSteps steps, named by their place
RunInit ==
    /\ ScanIdle
    /\ RenderIdle
    /\ CallIdle
    /\ strict \in BOOLEAN
    /\ steps \in {[i \in 1..n |-> i] : n \in 0..MaxSteps}
    /\ RunLocalsInit
    /\ run_pc = "start"

RunNext == RunBegin \/ RunStep \/ RunForEnd \/ RunFinish

RunSpec == RunInit /\ [][RunNext]_vars

RGraphs ==
    {[NoGraph EXCEPT !.version = 1, !.edges = es, !.entrypoints = eps] :
        es \in REdgeLists, eps \in REntryLists}

\* a call _render_mermaid_bfs(graph, max_depth, max_edges)
RenderInit ==
    /\ ScanIdle
    /\ r_graph \in RGraphs
    /\ r_max_depth \in 0..MaxRDepth
    /\ r_max_edges \in 0..MaxRCap
    /\ RenderLocalsInit
    /\ pc = "start"
    /\ CallIdle
    /\ RunIdle

RenderNext == RenderBegin \/ RenderPop \/ RenderFor \/ RenderForEnd \/ RenderReturn

RenderSpec == RenderInit /\ [][RenderNext]_vars

\* the renderer is one sequential call: it keeps running until it returns
RenderFairSpec == RenderSpec /\ WF_vars(RenderNext)

----------------------------------------------------------------------------
(* Properties of build_roadmap *)

Scanned == out_json # <<>>

Rescanned == prev_json # <<>>

NodeIds == {graph.nodes[i].id : i \in 1..Len(graph.nodes)}

GraphEdges == SeqToSet(graph.edges)

WalkedFiles == SeqToSet(walk.files)

\* every reference string written in a text
RawRefs(text) ==
    UNION {IF text[i].k = "import" THEN SeqToSet(text[i].names)
           ELSE IF text[i].k = "from" THEN {text[i].module}
           ELSE IF text[i].k \in {"jsimport", "require"} THEN {text[i].spec}
           ELSE IF text[i].k = "use" THEN {text[i].path}
           ELSE IF text[i].k = "mod" THEN {text[i].name}
           ELSE {} : i \in 1..Len(text)}

\* the reference strings written in the file that node id src stands for
RefsOfNode(src) == UNION {RawRefs(fs[p].content) : p \in {x \in DOMAIN fs : _rel(x) = src}}

SyntheticPrefixes == {<<"py", ":">>, <<"js", ":">>, <<"rs", ":">>, <<"rsmod", ":">>}

\* dst is a prefix, a colon and a reference string of the source file
IsSyntheticFor(e) == \E pre \in SyntheticPrefixes, r \in RefsOfNode(e.src) : e.dst = pre \o r

\* C1: in every graph returned by build_roadmap no two entries of the node
\* list share an id.
C1_NodeIdsUnique ==
    Scanned => \A i, j \in 1..Len(graph.nodes) : graph.nodes[i].id = graph.nodes[j].id => i = j

\* a scan over repeated or nested include roots that walked files twice
C1_Witness ==
    /\ Scanned
    /\ Len(graph.nodes) >= 2
    /\ Len(walk.files) > Len(graph.nodes)

\* C2: two scans of one tree with the same arguments, the ceiling out of
\* reach, that differ only in the order of the directory listing, write
\* identical serialized graphs, the order of the counters' keys included.
C2_RescanIdentical ==
    (Rescanned /\ max_files = DefaultMaxFiles) => out_json = prev_json

\* C3: every edge's source is a node id, and its destination is a node id
\* or a prefix, a colon and a reference string of the source file; no
\* destination is an unprefixed path that is not a node.
C3_EdgesWellFormed ==
    Scanned => \A e \in GraphEdges :
                   /\ e.src \in NodeIds
                   /\ e.dst \in NodeIds \/ IsSyntheticFor(e)

\* a Python reference whose module file is on disk but was not scanned, next
\* to none or more resolved ones
C3_Witness ==
    /\ Scanned
    /\ \E e \in GraphEdges :
           /\ e.dst \notin NodeIds
           /\ \E r \in RefsOfNode(e.src) :
                  /\ e.dst = <<"py", ":">> \o r
                  /\ _resolve_py_to_node(fs, e.src, r) # None

\* C4: no synthetic destination id equals the id of a node.
C4_SyntheticNeverNode ==
    Scanned => \A e \in GraphEdges : IsSyntheticFor(e) => e.dst \notin NodeIds

\* the file a relative import of module m at level l in file a denotes
RelativeTargets(a, l, m) ==
    LET anchor == Ascend(Parent(a), l - 1)
        cand == anchor \o PathOf(Split(m, "."))
    IN  {WithSuffix(cand, Ext("py")), cand \o <<INIT_PY>>}

\* C5: a scanned Python file A with a relative import (level >= 1) of a
\* module whose file B is a scanned node gets a resolved import edge A -> B
\* and no edge to a synthetic id for that reference.
C5_RelativeImportResolved ==
    Scanned =>
        \A a \in WalkedFiles :
            \A i \in 1..Len(fs[a].content) :
                LET n == fs[a].content[i]
                IN  (guess_lang(a) = "python" /\ n.k = "from" /\ n.level >= 1 /\ n.module # <<>>) =>
                        \A b \in RelativeTargets(a, n.level, n.module) :
                            _rel(b) \in NodeIds =>
                                /\ Edge(_rel(a), _rel(b), "import") \in GraphEdges
                                /\ Edge(_rel(a), <<"py", ":">> \o n.module, "import") \notin GraphEdges

\* the references build_roadmap leaves unresolved in walked file p, by kind
UnresolvedRefs(p, kind) ==
    LET text == fs[p].content
        lang == guess_lang(p)
    IN  IF kind = "py" /\ lang = "python"
        THEN {r \in SeqToSet(scan_python_imports(text)) :
                  LET x == _resolve_py_to_node(fs, _rel(p), r) IN x = None \/ x \notin NodeIds}
        ELSE IF kind = "js" /\ lang \in {"js", "ts"} THEN SeqToSet(scan_js_imports(text))
        ELSE IF kind = "rs" /\ lang = "rust" THEN SeqToSet(scan_rust_uses(text).uses)
        ELSE IF kind = "rsmod" /\ lang = "rust" THEN SeqToSet(scan_rust_uses(text).mods)
        ELSE {}

RefKinds == {"py", "js", "rs", "rsmod"}

\* C6 as stated: the destination of an unresolved reference r of a file
\* whose node has language tag L is L, a colon and r.
C6_LangTagPrefix ==
    Scanned =>
        \A p \in WalkedFiles : \A kind \in RefKinds : \A r \in UnresolvedRefs(p, kind) :
            \E e \in GraphEdges : e.src = _rel(p) /\ e.dst = <<guess_lang(p), ":">> \o r

\* C6 as amended: the destination of an unresolved reference r is the
\* prefix of the reference's kind, a colon and r: py for a Python module, js
\* for an import specifier of a js or ts file, rs for a Rust use path and
\* rsmod for a Rust mod declaration.
C6_KindPrefix ==
    Scanned =>
        \A p \in WalkedFiles : \A kind \in RefKinds : \A r \in UnresolvedRefs(p, kind) :
            \E e \in GraphEdges : e.src = _rel(p) /\ e.dst = <<kind, ":">> \o r

\* a scan that left references of a ts file and of a Rust file unresolved
C6_Witness ==
    /\ Scanned
    /\ \E p \in WalkedFiles : guess_lang(p) = "ts" /\ UnresolvedRefs(p, "js") # {}
    /\ \E p \in WalkedFiles : UnresolvedRefs(p, "rsmod") # {}

----------------------------------------------------------------------------
(* Properties of the walk's ceilings *)

\* the node list written in a serialized graph
NodesOfJson(j) == j[3][2]

\* a file lies under include root d with no excluded directory name and no
\* virtual environment on the way
ReachableFrom(d, p) ==
    /\ IsPrefix(d, p)
    /\ \A i \in (Len(d) + 1)..(Len(p) - 1) : p[i] \notin exclude_dirs
    /\ ~_is_under_venv(fs, p)
    /\ ~_is_venv_root(fs, d)

Reachable(p) == \E i \in 1..Len(include_dirs) : ReachableFrom(include_dirs[i], p)

\* the files a scan without ceiling may pick as candidates
CandidateFiles == {p \in DOMAIN fs : Reachable(p) /\ fs[p].size <= BigFileBytes}

OversizedFiles == {p \in DOMAIN fs : Reachable(p) /\ fs[p].size > BigFileBytes}

EdgesFrom(src) == {i \in 1..Len(graph.edges) : graph.edges[i].src = src}

\* C11: the walk stops once the ceiling is reached: neither the number of
\* collected candidate files nor the number of nodes exceeds max_files.
C11_CeilingHolds ==
    Scanned => Len(walk.files) <= max_files /\ Len(graph.nodes) <= max_files

\* C12: when the tree holds more candidate files than the ceiling, two scans
\* that differ in the order of the directory listing return the same nodes.
C12_TruncationReproducible ==
    (Rescanned /\ Cardinality(CandidateFiles) > max_files) =>
        NodesOfJson(out_json) = NodesOfJson(prev_json)

\* C13: an oversized file gives no node and no edge, and with the ceiling
\* out of reach skipped_big_files is the number of distinct oversized files
\* under the include roots outside pruned directories.
C13_OversizedCountedOnce ==
    Scanned =>
        /\ \A p \in OversizedFiles : _rel(p) \notin NodeIds /\ EdgesFrom(_rel(p)) = {}
        /\ max_files = DefaultMaxFiles =>
               DictGet(graph.stats, <<"skipped_big_files">>) = Cardinality(OversizedFiles)

\* C20: the number of edges out of a scanned Python file equals the number
\* of module references extracted from it, resolved or not.
C20_OneEdgePerReference ==
    Scanned =>
        \A p \in WalkedFiles :
            guess_lang(p) = "python" =>
                Cardinality(EdgesFrom(_rel(p))) = Len(scan_python_imports(fs[p].content))

\* the elements of s, each at its first place only
FirstOccurrences(s) ==
    LET first == {i \in 1..Len(s) : \A j \in 1..(i - 1) : s[j] # s[i]}
        nth(k) == CHOOSE i \in first : Cardinality({j \in first : j < i}) = k - 1
    IN  [k \in 1..Cardinality(first) |-> s[nth(k)]]

\* the walk that meets every file once
WalkOnce == [files |-> FirstOccurrences(walk.files), skipped_big |-> Cardinality(OversizedFiles)]

\* C30: a scan over include roots that repeat or overlap returns the graph
\* of the scan that meets every file once: edges and counters are not
\* multiplied, and the ceiling counts the distinct files collected.
C30_OverlapScannedOnce ==
    Scanned =>
        /\ max_files = DefaultMaxFiles => graph = Assemble(fs, WalkOnce)
        /\ Cardinality(WalkedFiles) =
               (IF Cardinality(CandidateFiles) < max_files THEN Cardinality(CandidateFiles) ELSE max_files)

----------------------------------------------------------------------------
(* Properties of the exclusion by name *)

\* the files of the tree that became nodes
NodeFiles == {p \in DOMAIN fs : _rel(p) \in NodeIds}

\* file p lies under include root d with no excluded name among the
\* directories between d and the file
BelowUnexcluded(d, p) ==
    /\ IsPrefix(d, p)
    /\ \A i \in (Len(d) + 1)..(Len(p) - 1) : p[i] \notin exclude_dirs

\* C23: a child directory whose name is in the exclude set is pruned before
\* descent: every collected file, and so every node and every file counting
\* toward the ceiling, lies under an include root with no excluded name
\* strictly below that root, and the oversized counter counts no file
\* beneath such a directory.
C23_ExcludedPruned ==
    Scanned =>
        /\ \A p \in WalkedFiles \cup NodeFiles :
               \E i \in 1..Len(include_dirs) : BelowUnexcluded(include_dirs[i], p)
        /\ walk.skipped_big <=
               Cardinality({x \in (1..Len(include_dirs)) \X DOMAIN fs :
                               /\ fs[x[2]].size > BigFileBytes
                               /\ BelowUnexcluded(include_dirs[x[1]], x[2])})

\* a scan that returned nodes and left out an oversized file beneath an
\* excluded directory below an include root
C23_Witness ==
    /\ Scanned
    /\ graph.nodes # <<>>
    /\ walk.skipped_big = 0
    /\ \E p \in DOMAIN fs :
           /\ fs[p].size > BigFileBytes
           /\ \E i \in 1..Len(include_dirs) :
                  /\ IsPrefix(include_dirs[i], p)
                  /\ ~BelowUnexcluded(include_dirs[i], p)

----------------------------------------------------------------------------
(* Properties of the assembled lists *)

\* entrypoint a may stand before b: node ascending, then confidence
\* descending, then reason ascending
EpInOrder(a, b) ==
    \/ StrLess(a.node, b.node)
    \/ a.node = b.node /\ a.confidence > b.confidence
    \/ a.node = b.node /\ a.confidence = b.confidence /\ ReasonRank(a.reason) <= ReasonRank(b.reason)

\* edge a may stand before b in the order of (src, dst, type, note)
EdgeInOrder(a, b) ==
    \/ StrLess(a.src, b.src)
    \/ a.src = b.src /\ StrLess(a.dst, b.dst)
    \/ a.src = b.src /\ a.dst = b.dst /\ StrLess(<<a.type>>, <<b.type>>)
    \/ a.src = b.src /\ a.dst = b.dst /\ a.type = b.type /\ ~StrLess(b.note, a.note)

\* C24: in every returned graph the node list is strictly ascending by id,
\* the edge list is non-decreasing by (src, dst, type, note) and the
\* entrypoint list is ordered by (node ascending, confidence descending,
\* reason ascending), whatever the order the files were discovered in.
C24_ListsOrdered ==
    Scanned =>
        /\ \A i \in 1..(Len(graph.nodes) - 1) : StrLess(graph.nodes[i].id, graph.nodes[i + 1].id)
        /\ \A i \in 1..(Len(graph.edges) - 1) : EdgeInOrder(graph.edges[i], graph.edges[i + 1])
        /\ \A i \in 1..(Len(graph.entrypoints) - 1) :
               EpInOrder(graph.entrypoints[i], graph.entrypoints[i + 1])

\* a scan that discovered two entry files in descending order of id and
\* returned two nodes, two entrypoints and edges of two kinds
C24_Witness ==
    /\ Scanned
    /\ Len(graph.nodes) = 2
    /\ StrLess(_rel(walk.files[2]), _rel(walk.files[1]))
    /\ Len(graph.entrypoints) = 2
    /\ \E i, j \in 1..Len(graph.edges) : graph.edges[i].type # graph.edges[j].type

\* the language tags of guess_lang and the edge kinds of build_roadmap
LangTags == {"python", "ts", "js", "rust", "html", "css", "config", "unknown"}

EdgeKinds == {"import", "use", "mod"}

\* counter key holds count n, and is absent when n is zero
CounterIs(key, n) ==
    IF n = 0 THEN ~DictHas(graph.stats, key)
    ELSE DictHas(graph.stats, key) /\ DictGet(graph.stats, key) = n

\* C25: in every returned graph nodes_L is the number of nodes of language
\* L and edges_K the number of edges of kind K, a key being absent exactly
\* when its count is zero; the stats hold no other key but the oversized
\* counter.
C25_CountersAgree ==
    Scanned =>
        /\ \A L \in LangTags :
               CounterIs(<<"nodes_", L>>, Cardinality({i \in 1..Len(graph.nodes) : graph.nodes[i].lang = L}))
        /\ \A K \in EdgeKinds :
               CounterIs(<<"edges_", K>>, Cardinality({i \in 1..Len(graph.edges) : graph.edges[i].type = K}))
        /\ DictKeys(graph.stats) \subseteq
               {<<"nodes_", L>> : L \in LangTags} \cup {<<"edges_", K>> : K \in EdgeKinds}
               \cup {<<"skipped_big_files">>}

\* a scan that returned two nodes of one language and several edges of one
\* kind
C25_Witness ==
    /\ Scanned
    /\ \E L \in LangTags : DictHas(graph.stats, <<"nodes_", L>>) /\ DictGet(graph.stats, <<"nodes_", L>>) = 2
    /\ \E K \in EdgeKinds : DictHas(graph.stats, <<"edges_", K>>) /\ DictGet(graph.stats, <<"edges_", K>>) >= 2

----------------------------------------------------------------------------
(* Properties of the venv pruning *)

\* directory d has the shape of a virtual environment: the metadata config
\* file, or the activation marker together with the runtime binary
VenvShaped(d) ==
    \/ IsFile(fs, d \o <<PYVENV_CFG>>)
    \/ IsFile(fs, d \o <<BIN, <<"activate">>>>) /\ IsFile(fs, d \o <<BIN, <<"python">>>>)

\* the directories named by the segments of a file's path below the root
AncestorDirs(p) == {SubSeq(p, 1, i) : i \in 1..(Len(p) - 1)}

----------------------------------------------------------------------------
(* Properties of the roadmap step *)

StepDone == step_status # "none"

\* C16: when the scan root does not exist, build_roadmap ends in a failure
\* and returns no graph, and the roadmap step neither reports PASS nor
\* writes a graph artifact.
C16_MissingRootFails ==
    (StepDone /\ ~root_exists) =>
        /\ outcome = "raised"
        /\ graph = NoGraph
        /\ step_status # "PASS"
        /\ OUT_JSON \notin written

\* C17: a file that cannot be read or parsed, whatever its language, never
\* aborts the scan: build_roadmap returns a graph in which every walked
\* file has its node, the failing file has no edges, and every other file
\* has its edges.
C17_FileFailureContained ==
    StepDone =>
        /\ outcome = "returned"
        /\ \A p \in WalkedFiles :
               /\ _rel(p) \in NodeIds
               /\ (~fs[p].readable \/ fs[p].content = SyntaxError) => EdgesFrom(_rel(p)) = {}
               /\ (fs[p].readable /\ fs[p].content # SyntaxError) =>
                      Cardinality(EdgesFrom(_rel(p))) = Cardinality(RawRefs(fs[p].content))

\* the files an absolute dotted module m names under source root r
AbsoluteTargets(r, m) ==
    LET cand == r \o PathOf(Split(m, "."))
    IN  {WithSuffix(cand, Ext("py")), cand \o <<INIT_PY>>}

\* C18: an absolute dotted module whose file is a scanned node only under
\* the src sub-root gets a resolved import edge to that node and no edge to
\* a synthetic destination.
C18_AbsoluteResolvedUnderSrc ==
    (StepDone /\ outcome = "returned") =>
        \A a \in WalkedFiles :
            (guess_lang(a) = "python" /\ fs[a].readable) =>
                \A m \in {r \in SeqToSet(scan_python_imports(fs[a].content)) : ~StartsWith(r, <<".">>)} :
                    \A b \in AbsoluteTargets(<<SRC>>, m) :
                        (_rel(b) \in NodeIds /\ \A x \in AbsoluteTargets(Root, m) : ~IsFile(fs, x)) =>
                            /\ Edge(_rel(a), _rel(b), "import") \in GraphEdges
                            /\ Edge(_rel(a), <<"py", ":">> \o m, "import") \notin GraphEdges

\* C28: a RoadmapStep configured with an explicit include list passes
\* exactly root/p for each listed p to build_roadmap; the policy's
\* conventional directories are used only without an explicit list.
C28_ExplicitIncludeUsed ==
    StepDone =>
        IF include # None
        THEN include_dirs = [i \in 1..Len(include) |-> Root \o include[i]]
        ELSE include_dirs = include_dir_candidates(fs)

----------------------------------------------------------------------------
(* Properties of the entrypoint detection *)

Triple(e) == <<e.node, e.reason, e.confidence>>

\* C15: every entrypoint returned by detect_entrypoints_from_nodes has a
\* confidence of 1, 2 or 3, and no two returned entries have the same
\* (node, reason, confidence) triple.
C15_EntrypointsRanked ==
    (call.name = "detect_entrypoints_from_nodes" /\ ret # <<>>) =>
        LET eps == ret[1]
        IN  /\ \A i \in 1..Len(eps) : eps[i].confidence \in {1, 2, 3}
            /\ \A i, j \in 1..Len(eps) : Triple(eps[i]) = Triple(eps[j]) => i = j

\* a call that returned entries of all three confidences, one of them a hint
C15_Witness ==
    /\ call.name = "detect_entrypoints_from_nodes"
    /\ ret # <<>>
    /\ {ret[1][i].confidence : i \in 1..Len(ret[1])} = {1, 2, 3}
    /\ \E i \in 1..Len(ret[1]) : ret[1][i].reason = "likely CLI/module entry"

\* the last component of a path string
LastComponent(path) == LET parts == Split(path, "/") IN parts[Len(parts)]

\* the confidences the rules give to a node of this path
RuleConfidences(path) ==
    (IF LastComponent(path) \in {MAIN_PY, MAIN_RS} THEN {3} ELSE {})
    \cup (IF path = PACKAGE_JSON THEN {2} ELSE {})
    \cup (IF path = PYPROJECT_TOML THEN {1} ELSE {})
    \cup (IF path \in {HintCli, HintInit} THEN {1} ELSE {})

\* C21: detect_entrypoints_from_nodes yields an entrypoint for node n
\* exactly when the last component of n's path is __main__.py or main.rs
\* (confidence 3), the path is package.json (2) or pyproject.toml (1), or
\* the path is one of the two hint paths (1); every entrypoint's node is a
\* key of the node dict and no other node gets an entrypoint.
C21_EntrypointRules ==
    (call.name = "detect_entrypoints_from_nodes" /\ ret # <<>>) =>
        LET nodes == call.args[1]
            eps == ret[1]
        IN  {<<eps[i].node, eps[i].confidence>> : i \in 1..Len(eps)}
            = UNION {{<<nodes[i].k, c>> : c \in RuleConfidences(nodes[i].v.path)} : i \in 1..Len(nodes)}

----------------------------------------------------------------------------
(* Properties of the context expansion's import resolution *)

\* the file a relative import of module m at level l in base_file denotes
\* when the anchor lies l - 1 levels above the directory of base_file
AnchoredTarget(base_file, m, l) ==
    LET anchor == Ascend(Parent(base_file), l - 1)
    IN  IF m # <<>> THEN anchor \o PathOf(Split(m, ".")) ELSE anchor

\* C19: for a relative reference of level L >= 1 in a file of directory D,
\* _relative_module_to_path anchors L - 1 levels above D (level 1 is D
\* itself), joins the module under the anchor if there is one and targets
\* the anchor itself otherwise: it returns the module file, or the package
\* __init__.py, found there.
C19_AnchorAtLevelMinusOne ==
    (call.name = "_relative_module_to_path" /\ ret # <<>>) =>
        LET t == AnchoredTarget(call.args[2], call.args[3], call.args[4])
            f1 == WithSuffix(t, Ext("py"))
            f2 == t \o <<INIT_PY>>
        IN  /\ is_file(fs, f1) => ret[1] = f1
            /\ (~is_file(fs, f1) /\ is_file(fs, f2)) => ret[1] = f2

----------------------------------------------------------------------------
(* Properties of the bounded renderer *)

Seeds == {r_graph.entrypoints[i].node : i \in 1..Len(r_graph.entrypoints)}

Successors(S) == {e.dst : e \in {x \in SeqToSet(r_graph.edges) : x.src \in S}}

\* the ids within k edges of a seed
RECURSIVE Within(_)
Within(k) == IF k <= 0 THEN Seeds ELSE LET w == Within(k - 1) IN w \cup Successors(w)

Unreachable == Len(r_graph.edges) + 1

\* shortest-path distance from the nearest seed
Dist(n) ==
    IF n \notin Within(Len(r_graph.edges)) THEN Unreachable
    ELSE CHOOSE k \in 0..Len(r_graph.edges) : n \in Within(k) /\ \A j \in 0..(k - 1) : n \notin Within(j)

IsEdgeLine(line) == \E i \in 1..Len(line) : line[i] = ARROW

EdgeLineCount(lines) == Cardinality({i \in 1..Len(lines) : IsEdgeLine(lines[i])})

RIds == Seeds \cup {e.src : e \in SeqToSet(r_graph.edges)} \cup {e.dst : e \in SeqToSet(r_graph.edges)}

\* C7: the renderer returns at most max_edges edge lines, the cap being
\* honoured in the middle of a node's expansion.
C7_EdgeCap ==
    /\ EdgeLineCount(shown) <= r_max_edges
    /\ pc = "done" => EdgeLineCount(result) <= r_max_edges

\* the cap stopped the expansion of a node that had a further, new edge
C7_Witness ==
    /\ pc = "done"
    /\ r_max_edges >= 1
    /\ EdgeLineCount(result) = r_max_edges
    /\ \E i \in 2..Len(todo) : <<cur[1], todo[i]>> \notin seen_edges

\* C8: every emitted edge has a source at distance less than max_depth from
\* the nearest seed, and no node at distance max_depth or more is expanded.
C8_DepthCap ==
    /\ \A x \in expanded : Dist(x[1]) < r_max_depth
    /\ \A i \in 1..Len(shown) :
           \E s \in RIds, d \in RIds : shown[i] = EdgeLine(s, d) /\ Dist(s) < r_max_depth

\* a node at distance max_depth with edges of its own was left unexpanded
\* although the cap was not reached
C8_Witness ==
    /\ pc = "done"
    /\ r_max_depth >= 1
    /\ Len(shown) < r_max_edges
    /\ \E n \in RIds : Dist(n) = r_max_depth /\ AdjGet(adj, n) # <<>>

\* C9: the traversal terminates, on graphs with cycles and self-references
\* too.
C9_Terminates == <>(pc = "done")

\* the traversal returned after following a two-node cycle from its one
\* seed and back
C9_Witness ==
    /\ pc = "done"
    /\ \E a \in RIds, b \in RIds :
           /\ a # b
           /\ Seeds = {a}
           /\ \E i, j \in 1..Len(result) :
                  /\ result[i] = EdgeLine(a, b)
                  /\ result[j] = EdgeLine(b, a)

\* C10: each (source, destination) pair is emitted at most once, even when
\* the edge list holds several edges between the pair.
C10_PairOnce ==
    \A s \in RIds, d \in RIds :
        /\ Cardinality({i \in 1..Len(shown) : shown[i] = EdgeLine(s, d)}) <= 1
        /\ pc = "done" => Cardinality({i \in 1..Len(result) : result[i] = EdgeLine(s, d)}) <= 1

\* a pair joined by two edges of different kinds was rendered
C10_Witness ==
    /\ pc = "done"
    /\ \E i, j \in 1..Len(r_graph.edges) :
           /\ i # j
           /\ r_graph.edges[i].src = r_graph.edges[j].src
           /\ r_graph.edges[i].dst = r_graph.edges[j].dst
           /\ r_graph.edges[i].type # r_graph.edges[j].type
           /\ \E k \in 1..Len(result) : result[k] = EdgeLine(r_graph.edges[i].src, r_graph.edges[i].dst)

C26_NoEntrypointsPlaceholder ==
    (pc = "done" /\ r_graph.entrypoints = <<>>) =>
        /\ result = <<NoEntrypointsLine>>
        /\ EdgeLineCount(result) = 0
        /\ result # <<NoEdgesLine>>

\* a finished run on a graph with edges and no entrypoints, with caps that
\* would let edges through
C26_Witness ==
    /\ pc = "done"
    /\ r_graph.entrypoints = <<>>
    /\ Len(r_graph.edges) >= 2
    /\ r_max_depth >= 1
    /\ r_max_edges >= 1

\* the edge cap was not reached by the finished run
CapNotReached == pc = "done" /\ Len(shown) < r_max_edges

\* C29: when the edge cap is not reached, every (source, destination) pair
\* among the outgoing edges of a node at distance less than max_depth from
\* some seed is in the output.
C29_CompleteBelowCap ==
    (CapNotReached /\ r_max_depth >= 1) =>
        \A e \in SeqToSet(r_graph.edges) :
            e.src \in Within(r_max_depth - 1) =>
                \E i \in 1..Len(result) : result[i] = EdgeLine(e.src, e.dst)

\* a finished run below the cap that rendered the edges of a node one edge
\* away from the seed and left a node at distance max_depth unexpanded
C29_Witness ==
    /\ CapNotReached
    /\ \E e \in SeqToSet(r_graph.edges) :
           /\ e.src \notin Seeds
           /\ e.src \in Within(r_max_depth - 1)
           /\ \E i \in 1..Len(result) : result[i] = EdgeLine(e.src, e.dst)
    /\ \E e \in SeqToSet(r_graph.edges) :
           /\ e.src \notin Within(r_max_depth - 1)
           /\ e.src \in Within(r_max_depth)

----------------------------------------------------------------------------
(* Properties of the profile runner *)

\* the place of the first FAIL among the recorded results, 0 if none
FirstFail ==
    IF \E i \in 1..Len(results) : results[i].status = "FAIL"
    THEN CHOOSE i \in 1..Len(results) :
             results[i].status = "FAIL" /\ \A j \in 1..(i - 1) : results[j].status # "FAIL"
    ELSE 0

\* C27: the recorded results are the steps run, in profile order.  With
\* strict enabled no step is run after the first FAIL, the results end with
\* that step and the return code is 10; without a FAIL, or with strict
\* disabled, every step is run and the return code is 0.  The archive is
\* produced in every case.
C27_StrictHonoured ==
    /\ Len(results) <= Len(steps)
    /\ \A i \in 1..Len(results) : results[i].name = steps[i]
    /\ strict => \A i \in 1..(Len(results) - 1) : results[i].status # "FAIL"
    /\ run_pc = "returned" =>
           /\ archive
           /\ IF strict /\ FirstFail # 0
              THEN Len(results) = FirstFail /\ rc = <<10>>
              ELSE Len(results) = Len(steps) /\ rc = <<0>>

\* a strict run that stopped at a FAIL before the last step of the profile
C27_Witness ==
    /\ run_pc = "returned"
    /\ strict
    /\ FirstFail >= 2
    /\ Len(results) < Len(steps)
    /\ rc = <<10>>

====
